---- MODULE Spec2Model ----
\* Model of nikon/microscope.py: the MicroscopeDevice protocol engine.
\*
\*   Spec        two tasks calling command operations (lock, sequence counter,
\*               _request's run loop) against a device that answers written
\*               frames in any order and with any delay.
\*   SpecSolo    one task calling every public command operation.
\*   SpecEvents  one task calling commands beside tasks reading the events.
\*   SpecLock    two tasks, with responses whose decoding may fail.
\*   SpecSeq     the sequence counter of _request at its full width.
\*   SpecStable  get_stable_status against a discrete clock.
\*   SpecLoop    one _request's read loop against a discrete clock.
\*   SpecCodec   get_event's decoding of a status frame and set_dia's encoding.
EXTENDS Integers, Sequences, FiniteSets, TLC

VARIABLES
    \* ---- MicroscopeDevice fields
    next_request_number,   \* self._next_request_number
    lock,                  \* self._lock: 0 when unlocked, else the task holding it
    waiters,               \* self._lock._waiters, FIFO
    \* ---- one entry per task calling a command operation
    pc,                    \* position of the task
    op,                    \* the public operation the task is in, or was refused
    todo,                  \* requests the running operation still has to make
    request_number,        \* _request's local request_number
    frame,                 \* bytes passed to self._device.write(0x01, ...)
    writes,                \* writes to 0x01 made by the current _request
    seen,                  \* frames the current _request has read, in order
    response,              \* value returned by run()
    error,                 \* exception raised inside the current _request
    outcome,               \* how the last public operation ended
    calls,                 \* public operations invoked so far
    \* ---- the device and its endpoints
    unanswered,            \* identifier bytes of frames received on 0x01, not answered
    timedout,              \* request numbers of the requests that ended in a read timeout
    rx,                    \* rx[ep]: frames waiting to be read on endpoint ep
    emitted,               \* status frames the device has pushed so far
    iolog,                 \* one record per kind of transfer made so far
    \* ---- tasks reading the event stream, without a clock
    lpc, lresult,
    \* ---- SpecSeq
    seq_first, seq_last, seq_calls,
    \* ---- SpecStable
    spc,                   \* position of the get_stable_status call
    idle_duration,         \* its argument [ms]
    status,                \* its local `status`
    result,                \* the value it returned
    wait_timer,            \* time left to asyncio.wait_for [ms], -1 when not armed
    read_timer,            \* time left to the executor's read of 0x82 [ms], -1 if none
    dangling,              \* time left to reads whose get_event was cancelled
    received,              \* events the call's get_status calls returned, in order
    elapsed,               \* time since the call started [ms]
    gap,                   \* time since the call last received an event [ms]
    lost,                  \* events read by a cancelled get_event's thread
    \* ---- SpecCodec
    data,                  \* the bytes a read of 0x82 returned, line 239
    event,                 \* what get_event made of them
    dia_in,                \* the value given to set_dia, as <<numerator, denominator>>
    dia_out,               \* the diaphragm step set_dia wrote, -1 before it is called
    \* ---- SpecLoop: one _request against a clock
    rl_pc,                 \* position of run()
    rl_number,             \* the request's request_number
    rl_timer,              \* time left to the read of 0x81 in progress [ms], -1 if none
    rl_waited,             \* time the last read has waited [ms]
    rl_elapsed,            \* time since run() wrote the frame [ms]
    rl_dropped,            \* frames run() read and dropped
    rl_stale,              \* frames of other requests the device has delivered
    rl_answered            \* the device has delivered the request's response

cmdvars == <<next_request_number, lock, waiters, pc, op, todo, request_number, frame,
             writes, seen, response, error, outcome, calls, unanswered, timedout>>
evvars == <<emitted, lpc, lresult>>
seqvars == <<seq_first, seq_last, seq_calls>>
stvars == <<spc, idle_duration, status, result, wait_timer, read_timer, dangling,
            received, elapsed, gap, lost>>
codecvars == <<data, event, dia_in, dia_out>>
loopvars == <<rl_pc, rl_number, rl_timer, rl_waited, rl_elapsed, rl_dropped, rl_stale,
              rl_answered>>
vars == <<cmdvars, rx, evvars, iolog, seqvars, stvars, codecvars, loopvars>>

\* ------------------------------------------------------------------ bounds
NumCallers == 2
NumListeners == 1
MaxCalls == 3
MaxQueue == 2
MaxEvents == 2
StartSpread == 1
MaxSeqCalls == 65537
MaxIdleSteps == 4
MaxSteps == 8
\* the clock's resolution [ms]
TimeStep == 5000
\* the largest denominator of the values given to set_dia
MaxDen == 4
\* diaphragm steps past the last one the device may report
MaxOverstep == 2
\* frames of other requests the device delivers to one request
MaxStale == 3

Callers == 1..NumCallers
Listeners == (NumCallers + 1)..(NumCallers + NumListeners)

\* ----------------------------------------------------------- program constants
\* the modulus of line 98 and the bound of random.randrange on line 94 (0xffff)
RequestModulus == 65535
EP_COMMAND_WRITE == 1
EP_COMMAND_READ == 129
EP_EVENT_READ == 130
PayloadWidth == 58
ArgWidth == 4
\* the timeout of the read of line 239 [ms]
EVENT_READ_TIMEOUT == 15000
\* the timeout of the read of line 105 [ms]
COMMAND_READ_TIMEOUT == 10000
\* the diaphragm's scale, lines 244 and 350
DiaScale == 2099
\* the offset of the zoom byte, line 253 (0x40)
ZoomBase == 64

\* --------------------------------------------------------------- byte strings
Zeros(n) ==
    [i \in 1..n |-> 0]

\* n bytes of one value
Fill(n, pad) ==
    [i \in 1..n |-> pad]

\* bytes.ljust(width, b"\x00")
LJust(b, width) ==
    IF Len(b) >= width THEN b ELSE b \o Zeros(width - Len(b))

\* bytes.rjust(width, b"\x00")
RJust(b, width) ==
    IF Len(b) >= width THEN b ELSE Zeros(width - Len(b)) \o b

\* struct.pack(">B", n)
PackB(n) ==
    <<n % 256>>

\* struct.pack(">H", n)
PackH(n) ==
    <<(n \div 256) % 256, n % 256>>

\* struct.pack(">i", n): two's complement, big-endian (\div rounds down, so the
\* bytes of a negative n are those of n + 2^32)
PackI(n) ==
    <<(n \div 16777216) % 256, (n \div 65536) % 256, (n \div 256) % 256, n % 256>>

\* struct.pack(">?", b)
PackBool(b) ==
    <<IF b THEN 1 ELSE 0>>

\* struct.unpack(">H", b)
UnpackH(b) ==
    b[1] * 256 + b[2]

\* Python's round() of the rational num/den (den > 0): half to even
Round(num, den) ==
    LET q == num \div den
        r == num % den
    IN  IF 2 * r < den THEN q
        ELSE IF 2 * r > den THEN q + 1
        ELSE IF q % 2 = 0 THEN q ELSE q + 1

\* ------------------------------------------------------------------- framing
\* the frame without the padding of its payload
FrameUnpadded(payload, n) ==
    payload \o <<48, 49>> \o PackH(n)

\* the argument of self._device.write on line 102
Frame(payload, n) ==
    LJust(payload, PayloadWidth) \o <<48, 49>> \o PackH(n)

\* the argument _call passes to _request on line 115
CallPayload(call_type, payload) ==
    <<1, 0, 33, 255, 0, 0>> \o <<call_type>> \o RJust(payload, ArgWidth)

\* response[60:] of line 106
ResponseNumber(resp) ==
    UnpackH(SubSeq(resp, 61, Len(resp)))

\* the counter left as it is
SameRequestNumber(n) ==
    n

\* line 98
NextRequestNumber(n) ==
    (n + 1) % RequestModulus

\* ------------------------------------------------------------------- codec
\* struct.calcsize of one format character
Width(c) ==
    CASE c = "i" -> 4
      [] c = "H" -> 2
      [] OTHER -> 1

\* struct.calcsize
RECURSIVE CalcSize(_)
CalcSize(fmt) ==
    IF fmt = <<>> THEN 0 ELSE Width(Head(fmt)) + CalcSize(Tail(fmt))

\* the value struct.unpack makes of the bytes of one big-endian field
FieldValue(c, b) ==
    CASE c = "B" -> b[1]
      [] c = "H" -> b[1] * 256 + b[2]
      [] c = "?" -> b[1] # 0
      [] c = "i" -> (b[1] - (IF b[1] >= 128 THEN 256 ELSE 0)) * 16777216
                        + b[2] * 65536 + b[3] * 256 + b[4]

\* struct.unpack(">" + fmt, b) for a buffer of the format's size: pad bytes are
\* skipped, every other field gives one value
RECURSIVE Unpack(_, _)
Unpack(fmt, b) ==
    IF fmt = <<>> THEN <<>>
    ELSE LET c == Head(fmt)
             w == Width(c)
             rest == Unpack(Tail(fmt), SubSeq(b, w + 1, Len(b)))
         IN  IF c = "x" THEN rest ELSE <<FieldValue(c, SubSeq(b, 1, w))>> \o rest

Pad(n) ==
    [i \in 1..n |-> "x"]

\* the format with the diaphragm read as a 32-bit integer
StatusFormatWideDia ==
    Pad(3) \o <<"B", "B", "B">> \o Pad(2) \o <<"B">> \o Pad(1) \o <<"i">> \o Pad(4)
        \o <<"i">> \o Pad(4) \o <<"i">> \o Pad(4) \o <<"i", "?">> \o Pad(5)
        \o <<"B">> \o Pad(19)

\* the format of line 240: ">xxxBBBxxBxixxxxixxxxixxxxH?7xB19x"
StatusFormat ==
    Pad(3) \o <<"B", "B", "B">> \o Pad(2) \o <<"B">> \o Pad(1) \o <<"i">> \o Pad(4)
        \o <<"i">> \o Pad(4) \o <<"i">> \o Pad(4) \o <<"H", "?">> \o Pad(7)
        \o <<"B">> \o Pad(19)

\* the mask left out: the whole byte
BitKeep(m, n) ==
    m

\* Python's & on two non-negative integers
RECURSIVE BitAnd(_, _)
BitAnd(m, n) ==
    IF m = 0 \/ n = 0 THEN 0
    ELSE (m % 2) * (n % 2) + 2 * BitAnd(m \div 2, n \div 2)

\* line 350: round(value * 2099.0 + 1.0) for value = a / b
DiaEncode(a, b) ==
    Round(a * DiaScale + b, b)

\* the diaphragm's opening read with no offset
DiaDecodeNoOffset(raw) ==
    <<raw, DiaScale>>

\* line 244: (raw - 1) / 2099.0, as <<numerator, denominator>>
DiaDecode(raw) ==
    <<raw - 1, DiaScale>>

\* lines 240-254: get_event's decoding of the bytes it read. unpacked[k] of the
\* source is u[k + 1].
DecodeStatus(b) ==
    IF Len(b) # CalcSize(StatusFormat) THEN [error |-> "struct.error"]
    ELSE LET u == Unpack(StatusFormat, b)
         IN  [error |-> "ok",
              condenser |-> u[2] - 1,
              dia |-> DiaDecode(u[8]),
              filter |-> BitAnd(u[3], 15) - 1,
              light |-> u[9],
              objective |-> u[1] - 1,
              optical_path |-> u[4] - 1,
              shutter |-> u[3] >= 16,
              x |-> u[6],
              y |-> u[7],
              z |-> u[5],
              zoom |-> u[10] - ZoomBase]

\* ------------------------------------------------------- public operations
\* A call of a public command operation: its name and its arguments. set_dia's
\* value is the rational a/b; set_button_function's index is a, its function b;
\* a boolean argument is a = 1 or 0.
Op(name, a, b) ==
    [name |-> name, a |-> a, b |-> b]

\* One _request of an operation: whether it runs inside `async with self._lock`
\* and the payload it passes to _request.
Locked(payload) ==
    [locked |-> TRUE, payload |-> payload]

Unlocked(payload) ==
    [locked |-> FALSE, payload |-> payload]

\* _get_label: header + struct.pack(">5xB", index + 1), under the lock
GetLabel(header, index) ==
    Locked(header \o Zeros(5) \o PackB(index + 1))

\* get_objective_info: the request of line 172, under the lock
GetObjectiveInfo(index) ==
    Locked(<<1, 0, 25, 0>> \o Zeros(5) \o PackB(index + 1))

\* _get_bound: b"\x01\x00" + header, with no lock taken
GetBound(header) ==
    Unlocked(<<1, 0>> \o header)

\* the asserts with their upper bounds included
RangeOkInclusive(o) ==
    CASE o.name = "set_condenser" -> 0 <= o.a /\ o.a <= 7
      [] o.name = "set_dia" -> 0 <= o.a /\ o.a <= o.b + o.b
      [] o.name = "set_filter" -> 0 <= o.a /\ o.a <= 6
      [] o.name = "set_objective" -> 0 <= o.a /\ o.a <= 6
      [] o.name = "set_optical_path" -> 0 <= o.a /\ o.a <= 4
      [] o.name = "set_button_function" -> 0 <= o.a /\ o.a <= 8
      [] OTHER -> TRUE

\* the asserts that open the setters
RangeOk(o) ==
    CASE o.name = "set_condenser" -> 0 <= o.a /\ o.a < 7
      [] o.name = "set_dia" -> 0 <= o.a /\ o.a <= o.b
      [] o.name = "set_filter" -> 0 <= o.a /\ o.a < 6
      [] o.name = "set_objective" -> 0 <= o.a /\ o.a < 6
      [] o.name = "set_optical_path" -> 0 <= o.a /\ o.a < 4
      [] o.name = "set_button_function" -> 0 <= o.a /\ o.a < 8
      [] OTHER -> TRUE

\* the requests a public operation makes, in order
Steps(o) ==
    CASE o.name = "get_firmware_cpu_version" ->
            <<Locked(<<1, 0, 8, 0, 0, 0, 0, 0, 0>> \o PackBool(FALSE))>>
      [] o.name = "get_version" -> <<Locked(<<1, 0, 232, 48>>)>>
      [] o.name = "get_condenser_label" -> <<GetLabel(<<1, 0, 25, 4>>, o.a)>>
      [] o.name = "get_condenser_labels" ->
            [i \in 1..7 |-> GetLabel(<<1, 0, 25, 4>>, i - 1)]
      [] o.name = "get_filter_label" -> <<GetLabel(<<1, 0, 25, 8>>, o.a)>>
      [] o.name = "get_filter_labels" ->
            [i \in 1..6 |-> GetLabel(<<1, 0, 25, 8>>, i - 1)]
      [] o.name = "get_optical_path_label" -> <<GetLabel(<<1, 0, 25, 24>>, o.a)>>
      [] o.name = "get_optical_path_labels" ->
            [i \in 1..4 |-> GetLabel(<<1, 0, 25, 24>>, i - 1)]
      [] o.name = "get_zoom_label" -> <<GetLabel(<<1, 0, 25, 44>>, o.a)>>
      [] o.name = "get_zoom_labels" ->
            [i \in 1..2 |-> GetLabel(<<1, 0, 25, 44>>, i - 1)]
      [] o.name = "get_objective_info" -> <<GetObjectiveInfo(o.a)>>
      [] o.name = "get_objective_infos" ->
            [i \in 1..6 |-> GetObjectiveInfo(i - 1)]
      [] o.name = "get_x_bounds" -> <<GetBound(<<27, 8>>), GetBound(<<26, 8>>)>>
      [] o.name = "get_y_bounds" -> <<GetBound(<<27, 12>>), GetBound(<<26, 12>>)>>
      [] o.name = "get_z_bound" -> <<GetBound(<<27, 4>>)>>
      [] o.name = "set_x" -> <<Locked(CallPayload(168, PackI(o.a)))>>
      [] o.name = "set_y" -> <<Locked(CallPayload(172, PackI(o.a)))>>
      [] o.name = "set_z" -> <<Locked(CallPayload(160, PackI(o.a)))>>
      [] o.name = "set_condenser" -> <<Locked(CallPayload(136, PackH(o.a + 1)))>>
      [] o.name = "set_dia" ->
            <<Locked(CallPayload(181, PackH(DiaEncode(o.a, o.b))))>>
      [] o.name = "set_filter" -> <<Locked(CallPayload(140, PackH(o.a + 1)))>>
      [] o.name = "set_light" -> <<Locked(CallPayload(180, <<0>> \o PackBool(o.a = 1)))>>
      [] o.name = "set_objective" -> <<Locked(CallPayload(128, PackB(o.a + 1)))>>
      [] o.name = "set_optical_path" -> <<Locked(CallPayload(152, PackB(o.a + 1)))>>
      [] o.name = "set_shutter" -> <<Locked(CallPayload(141, PackBool(o.a = 1)))>>
      [] o.name = "set_button_function" ->
            <<Locked(<<1, 0, 3, 40>> \o Zeros(5) \o PackB(o.a) \o Zeros(3) \o PackB(o.b))>>

\* the calls the model makes: each operation at the edges of its range
RangedCalls ==
    {Op("set_condenser", a, 0) : a \in {-1, 0, 6, 7}}
    \cup {Op("set_filter", a, 0) : a \in {-1, 5, 6}}
    \cup {Op("set_objective", a, 0) : a \in {-1, 0, 5, 6}}
    \cup {Op("set_optical_path", a, 0) : a \in {-1, 3, 4}}
    \cup {Op("set_dia", -1, 100), Op("set_dia", 0, 1), Op("set_dia", 1, 2),
          Op("set_dia", 1, 1), Op("set_dia", 11, 10)}
    \cup {Op("set_button_function", a, 255) : a \in {-1, 0, 7, 8}}

FreeCalls ==
    {Op("get_firmware_cpu_version", 0, 0), Op("get_version", 0, 0),
     Op("get_condenser_label", 6, 0), Op("get_filter_label", 0, 0),
     Op("get_optical_path_label", 3, 0), Op("get_zoom_label", 1, 0),
     Op("get_zoom_labels", 0, 0), Op("get_optical_path_labels", 0, 0),
     Op("get_filter_labels", 0, 0), Op("get_condenser_labels", 0, 0),
     Op("get_objective_info", 5, 0), Op("get_objective_infos", 0, 0),
     Op("get_x_bounds", 0, 0), Op("get_y_bounds", 0, 0), Op("get_z_bound", 0, 0),
     Op("set_x", 500, 0), Op("set_x", -1, 0), Op("set_y", 250, 0),
     Op("set_z", 1000, 0), Op("set_light", 1, 0), Op("set_shutter", 0, 0)}

Operations ==
    RangedCalls \cup FreeCalls

\* the calls two tasks make side by side
ConcurrentCalls ==
    {Op("get_version", 0, 0), Op("set_objective", 5, 0), Op("set_objective", 6, 0),
     Op("get_zoom_labels", 0, 0), Op("get_x_bounds", 0, 0), Op("get_z_bound", 0, 0)}


\* ------------------------------------------------------------ initial state
NoOp ==
    Op("none", 0, 0)

\* random.randrange(0xffff) of line 94, restricted to the values next to the wrap
StartNumbers ==
    {n \in 0..(RequestModulus - 1) : n < StartSpread \/ n >= RequestModulus - StartSpread}

IdleSeq ==
    /\ seq_first = -1
    /\ seq_last = -1
    /\ seq_calls = 0

IdleStable ==
    /\ spc = "idle"
    /\ idle_duration = 0
    /\ status = 0
    /\ result = 0
    /\ wait_timer = -1
    /\ read_timer = -1
    /\ dangling = <<>>
    /\ received = <<>>
    /\ elapsed = 0
    /\ gap = 0
    /\ lost = {}

InitDevice ==
    /\ lock = 0
    /\ waiters = <<>>
    /\ pc = [p \in Callers |-> "idle"]
    /\ op = [p \in Callers |-> NoOp]
    /\ todo = [p \in Callers |-> <<>>]
    /\ request_number = [p \in Callers |-> -1]
    /\ frame = [p \in Callers |-> <<>>]
    /\ writes = [p \in Callers |-> 0]
    /\ seen = [p \in Callers |-> <<>>]
    /\ response = [p \in Callers |-> <<>>]
    /\ error = [p \in Callers |-> "none"]
    /\ outcome = [p \in Callers |-> "none"]
    /\ calls = 0
    /\ unanswered = {}
    /\ timedout = {}
    /\ rx = [ep \in {EP_COMMAND_READ, EP_EVENT_READ} |-> <<>>]
    /\ emitted = 0
    /\ iolog = {}
    /\ lpc = [l \in Listeners |-> "idle"]
    /\ lresult = [l \in Listeners |-> 0]

\* no event read and no set_dia yet
NoEvent ==
    [error |-> "none"]

NoFraction ==
    <<0, 0>>

IdleCodec ==
    /\ data = <<>>
    /\ event = NoEvent
    /\ dia_in = NoFraction
    /\ dia_out = -1

IdleLoop ==
    /\ rl_pc = "idle"
    /\ rl_number = -1
    /\ rl_timer = -1
    /\ rl_waited = 0
    /\ rl_elapsed = 0
    /\ rl_dropped = 0
    /\ rl_stale = 0
    /\ rl_answered = FALSE

Init ==
    /\ next_request_number \in StartNumbers
    /\ InitDevice
    /\ IdleSeq
    /\ IdleStable
    /\ IdleCodec
    /\ IdleLoop

\* a transfer made on an endpoint, as iolog records it
Transfer(kind, dir, ep) ==
    <<kind, dir, ep>>

\* --------------------------------------------------------- command channel
\* the state of a task that is in no _request
NoRequest(p) ==
    /\ request_number' = [request_number EXCEPT ![p] = -1]
    /\ frame' = [frame EXCEPT ![p] = <<>>]
    /\ writes' = [writes EXCEPT ![p] = 0]
    /\ seen' = [seen EXCEPT ![p] = <<>>]
    /\ response' = [response EXCEPT ![p] = <<>>]
    /\ error' = [error EXCEPT ![p] = "none"]

\* Lines 97-98 and the submission of run() to the executor: the request takes
\* the counter's value, advances it, and waits for the executor. `lk` and `ws`
\* are the lock and its waiters as the caller leaves them.
Issue(p, steps, lk, ws) ==
    /\ request_number' = [request_number EXCEPT ![p] = next_request_number]
    /\ next_request_number' = NextRequestNumber(next_request_number)
    /\ lock' = IF Head(steps).locked THEN p ELSE lk
    /\ waiters' = ws
    /\ pc' = [pc EXCEPT ![p] = "run"]
    /\ todo' = [todo EXCEPT ![p] = steps]
    /\ frame' = [frame EXCEPT ![p] = <<>>]
    /\ writes' = [writes EXCEPT ![p] = 0]
    /\ seen' = [seen EXCEPT ![p] = <<>>]
    /\ response' = [response EXCEPT ![p] = <<>>]
    /\ error' = [error EXCEPT ![p] = "none"]

\* `async with self._lock` when the lock is taken or has waiters: the task queues
Queue(p, steps, lk, ws) ==
    /\ lock' = lk
    /\ waiters' = Append(ws, p)
    /\ pc' = [pc EXCEPT ![p] = "wait_lock"]
    /\ todo' = [todo EXCEPT ![p] = steps]
    /\ NoRequest(p)
    /\ UNCHANGED next_request_number

\* asyncio.Lock.acquire returns at once only if the lock is free and nobody waits
MustWait(step, lk, ws) ==
    step.locked /\ ~(lk = 0 /\ ws = <<>>)

\* The next request of an operation, up to its first suspension.
Enter(p, steps, lk, ws) ==
    IF MustWait(Head(steps), lk, ws)
      THEN Queue(p, steps, lk, ws)
      ELSE Issue(p, steps, lk, ws)

\* the identifier taken before the range is checked
ConsumedOnRefusal(n) ==
    NextRequestNumber(n)

\* the counter after a setter's assert has failed: the assert is the setter's
\* first statement, _request is never reached
AfterRefusal(n) ==
    n

\* A task calls a public command operation. A failed assert ends the call
\* before anything else happens.
Call(p, o) ==
    /\ pc[p] = "idle"
    /\ calls < MaxCalls
    /\ calls' = calls + 1
    /\ op' = [op EXCEPT ![p] = o]
    /\ IF RangeOk(o)
         THEN /\ Enter(p, Steps(o), lock, waiters)
              /\ outcome' = [outcome EXCEPT ![p] = "pending"]
         ELSE /\ outcome' = [outcome EXCEPT ![p] = "AssertionError"]
              /\ NoRequest(p)
              /\ next_request_number' = AfterRefusal(next_request_number)
              /\ UNCHANGED <<lock, waiters, pc, todo>>
    /\ UNCHANGED <<unanswered, timedout, rx, evvars, iolog, seqvars, codecvars, loopvars, stvars>>

\* The first waiter of the released lock resumes, takes the lock and goes on
\* into _request.
Acquire(p) ==
    /\ pc[p] = "wait_lock"
    /\ lock = 0
    /\ waiters # <<>>
    /\ Head(waiters) = p
    /\ Issue(p, todo[p], 0, Tail(waiters))
    /\ UNCHANGED <<op, outcome, calls, unanswered, timedout, rx, evvars, iolog, seqvars, codecvars, loopvars, stvars>>

\* run(), line 102: the write to the command-write endpoint. The transport may
\* refuse it (usb.core.USBError), which ends run().
Write(p, ok) ==
    /\ pc[p] = "run"
    /\ frame' = [frame EXCEPT ![p] = Frame(Head(todo[p]).payload, request_number[p])]
    /\ writes' = [writes EXCEPT ![p] = @ + 1]
    /\ iolog' = iolog \cup {Transfer("command", "write", EP_COMMAND_WRITE)}
    /\ IF ok
         THEN /\ unanswered' = unanswered \cup {SubSeq(frame'[p], 61, 62)}
              /\ pc' = [pc EXCEPT ![p] = "read"]
              /\ UNCHANGED error
         ELSE /\ error' = [error EXCEPT ![p] = "USBError"]
              /\ pc' = [pc EXCEPT ![p] = "resolved"]
              /\ UNCHANGED unanswered
    /\ UNCHANGED <<next_request_number, lock, waiters, op, todo, request_number,
                   seen, response, outcome, calls, timedout, rx, evvars, seqvars, codecvars, loopvars, stvars>>

\* the first frame read taken as the response
MatchesAny(resp, n) ==
    TRUE

\* line 108
Matches(resp, n) ==
    ResponseNumber(resp) = n

\* run(), lines 105-109: one read of the command-read endpoint that delivers a
\* frame; the frame is returned if its number is the request's, else dropped.
Read(p) ==
    /\ pc[p] = "read"
    /\ rx[EP_COMMAND_READ] # <<>>
    /\ LET resp == Head(rx[EP_COMMAND_READ])
       IN  /\ rx' = [rx EXCEPT ![EP_COMMAND_READ] = Tail(@)]
           /\ seen' = [seen EXCEPT ![p] = Append(@, resp)]
           /\ IF Matches(resp, request_number[p])
                THEN /\ response' = [response EXCEPT ![p] = resp]
                     /\ pc' = [pc EXCEPT ![p] = "resolved"]
                ELSE UNCHANGED <<response, pc>>
    /\ iolog' = iolog \cup {Transfer("command", "read", EP_COMMAND_READ)}
    /\ UNCHANGED <<next_request_number, lock, waiters, op, todo, request_number,
                   frame, writes, error, outcome, calls, unanswered, timedout, evvars,
                   seqvars, codecvars, loopvars, stvars>>

\* the request written again after a read timed out
RetryAfterTimeout(p) ==
    "run"

\* where run() stands after a read raised: the exception leaves it
AfterTimeout(p) ==
    "resolved"

\* run(), line 105: no frame within the 10 s of the read; the transport's
\* timeout error leaves run().
ReadTimeout(p) ==
    /\ pc[p] = "read"
    /\ rx[EP_COMMAND_READ] = <<>>
    /\ error' = [error EXCEPT ![p] = "USBTimeoutError"]
    /\ pc' = [pc EXCEPT ![p] = AfterTimeout(p)]
    /\ timedout' = timedout \cup {request_number[p]}
    /\ iolog' = iolog \cup {Transfer("command", "read", EP_COMMAND_READ)}
    /\ UNCHANGED <<next_request_number, lock, waiters, op, todo, request_number,
                   frame, writes, seen, response, outcome, calls, unanswered, rx,
                   evvars, seqvars, codecvars, loopvars, stvars>>

\* bytes.decode("ascii") succeeds
Ascii(b) ==
    \A i \in 1..Len(b) : b[i] < 128

\* float(b) succeeds on these bytes: digits with at most one point (the texts
\* the device sends; float() takes some more forms)
FloatText(b) ==
    /\ \A i \in 1..Len(b) : b[i] \in 48..57 \/ b[i] = 46
    /\ Cardinality({i \in 1..Len(b) : b[i] = 46}) <= 1
    /\ \E i \in 1..Len(b) : b[i] # 46

\* What an operation makes of the response inside its `async with` block: the
\* exception its decoding raises, or "none". Lines 125, 130, 138-141, 173-185.
DecodeError(o, res) ==
    CASE o.name = "get_firmware_cpu_version" ->
            IF Ascii(SubSeq(res, 7, 11)) THEN "none" ELSE "UnicodeDecodeError"
      [] o.name = "get_version" ->
            IF Ascii(SubSeq(res, 7, 14)) THEN "none" ELSE "UnicodeDecodeError"
      [] o.name \in {"get_condenser_label", "get_condenser_labels", "get_filter_label",
                     "get_filter_labels", "get_optical_path_label",
                     "get_optical_path_labels", "get_zoom_label", "get_zoom_labels"} ->
            IF Ascii(SubSeq(res, 11, 50)) THEN "none" ELSE "UnicodeDecodeError"
      [] o.name \in {"get_objective_info", "get_objective_infos"} ->
            IF ~Ascii(SubSeq(res, 11, 18)) \/ ~Ascii(SubSeq(res, 25, 50))
              THEN "UnicodeDecodeError"
              ELSE IF FloatText(SubSeq(res, 39, 42)) THEN "none" ELSE "ValueError"
      [] OTHER -> "none"

\* the lock released only when the block ends without an exception
LockAfterSuccess(step, err, lk) ==
    IF step.locked /\ err = "none" THEN 0 ELSE lk

\* the lock as a request's block leaves it: `async with self._lock` releases it
\* however the block ends; _get_bound never held it
LockAfter(step, err, lk) ==
    IF step.locked THEN 0 ELSE lk

\* Line 112 resumes with run()'s result or exception: the operation decodes the
\* response, leaves its `async with` block (releasing the lock if it holds it)
\* and either ends or goes on to its next request.
Resume(p) ==
    /\ pc[p] = "resolved"
    /\ LET err == IF error[p] # "none" THEN error[p]
                  ELSE DecodeError(op[p], response[p])
           lk == LockAfter(Head(todo[p]), err, lock)
           rest == Tail(todo[p])
       IN  IF err = "none" /\ rest # <<>>
             THEN /\ Enter(p, rest, lk, waiters)
                  /\ UNCHANGED <<op, outcome>>
             ELSE /\ lock' = lk
                  /\ pc' = [pc EXCEPT ![p] = "idle"]
                  /\ todo' = [todo EXCEPT ![p] = <<>>]
                  /\ outcome' = [outcome EXCEPT ![p] =
                                   IF err = "none" THEN "ok" ELSE err]
                  /\ op' = [op EXCEPT ![p] = NoOp]
                  /\ NoRequest(p)
                  /\ UNCHANGED <<next_request_number, waiters>>
    /\ UNCHANGED <<calls, unanswered, timedout, rx, evvars, iolog, seqvars, codecvars,
                   loopvars, stvars>>

\* what the device sends back for a frame it received: 62 bytes that echo the
\* request's identifier in bytes [60:62], after a body of ASCII digits
ResponseFrame(id) ==
    Fill(60, 48) \o id

\* a response whose body is no ASCII text
GarbledFrame(id) ==
    Fill(60, 255) \o id

\* The device answers one of the frames it received.
Respond(id) ==
    /\ id \in unanswered
    /\ Len(rx[EP_COMMAND_READ]) < MaxQueue
    /\ rx' = [rx EXCEPT ![EP_COMMAND_READ] = Append(@, ResponseFrame(id))]
    /\ unanswered' = unanswered \ {id}
    /\ UNCHANGED <<next_request_number, lock, waiters, pc, op, todo, request_number,
                   frame, writes, seen, response, error, outcome, calls, timedout,
                   evvars, iolog, seqvars, codecvars, loopvars, stvars>>

\* The device answers one of the frames it received with a garbled body.
RespondGarbled(id) ==
    /\ id \in unanswered
    /\ Len(rx[EP_COMMAND_READ]) < MaxQueue
    /\ rx' = [rx EXCEPT ![EP_COMMAND_READ] = Append(@, GarbledFrame(id))]
    /\ unanswered' = unanswered \ {id}
    /\ UNCHANGED <<next_request_number, lock, waiters, pc, op, todo, request_number,
                   frame, writes, seen, response, error, outcome, calls, timedout,
                   evvars, iolog, seqvars, codecvars, loopvars, stvars>>

\* ------------------------------------------------------------ event stream
\* The device pushes its next status frame on the event endpoint.
Emit ==
    /\ emitted < MaxEvents
    /\ Len(rx[EP_EVENT_READ]) < MaxQueue
    /\ emitted' = emitted + 1
    /\ rx' = [rx EXCEPT ![EP_EVENT_READ] = Append(@, emitted + 1)]
    /\ UNCHANGED <<cmdvars, lpc, lresult, iolog, seqvars, codecvars, loopvars, stvars>>

\* get_event reading the command-read endpoint
EventEndpointShared ==
    EP_COMMAND_READ

\* the endpoint get_event reads, line 239
EventEndpoint ==
    EP_EVENT_READ

\* get_event (also behind get_status and __anext__): the read of line 239 is
\* handed to the executor. No lock is taken and nothing is written.
GetEvent(l) ==
    /\ lpc[l] = "idle"
    /\ lpc' = [lpc EXCEPT ![l] = "read"]
    /\ lresult' = [lresult EXCEPT ![l] = 0]
    /\ UNCHANGED <<cmdvars, rx, emitted, iolog, seqvars, codecvars, loopvars, stvars>>

\* the read delivers the next status frame, which get_event returns decoded
EventRead(l) ==
    /\ lpc[l] = "read"
    /\ rx[EventEndpoint] # <<>>
    /\ rx' = [rx EXCEPT ![EventEndpoint] = Tail(@)]
    /\ lresult' = [lresult EXCEPT ![l] = Head(rx[EventEndpoint])]
    /\ lpc' = [lpc EXCEPT ![l] = "idle"]
    /\ iolog' = iolog \cup {Transfer("event", "read", EventEndpoint)}
    /\ UNCHANGED <<cmdvars, emitted, seqvars, codecvars, loopvars, stvars>>

\* no status frame within the 15 s of the read: get_event raises
EventTimeout(l) ==
    /\ lpc[l] = "read"
    /\ rx[EventEndpoint] = <<>>
    /\ lresult' = [lresult EXCEPT ![l] = -1]
    /\ lpc' = [lpc EXCEPT ![l] = "idle"]
    /\ iolog' = iolog \cup {Transfer("event", "read", EventEndpoint)}
    /\ UNCHANGED <<cmdvars, rx, emitted, seqvars, codecvars, loopvars, stvars>>

\* ---------------------------------------------------------- specifications
\* two tasks calling command operations side by side
Next ==
    \/ \E p \in Callers, o \in ConcurrentCalls : Call(p, o)
    \/ \E p \in Callers : Acquire(p)
    \/ \E p \in Callers, ok \in BOOLEAN : Write(p, ok)
    \/ \E p \in Callers : Read(p)
    \/ \E p \in Callers : ReadTimeout(p)
    \/ \E p \in Callers : Resume(p)
    \/ \E id \in unanswered : Respond(id)

Spec ==
    Init /\ [][Next]_vars

\* one task, calling every public operation in turn
Solo ==
    CHOOSE p \in Callers : TRUE

NextSolo ==
    \/ \E o \in Operations : Call(Solo, o)
    \/ \E ok \in BOOLEAN : Write(Solo, ok)
    \/ Read(Solo)
    \/ ReadTimeout(Solo)
    \/ Resume(Solo)
    \/ \E id \in unanswered : Respond(id)

SpecSolo ==
    Init /\ [][NextSolo]_vars

\* one task calling command operations beside tasks that read the event stream
NextEvents ==
    \/ \E o \in ConcurrentCalls : Call(Solo, o)
    \/ \E ok \in BOOLEAN : Write(Solo, ok)
    \/ Read(Solo)
    \/ ReadTimeout(Solo)
    \/ Resume(Solo)
    \/ \E id \in unanswered : Respond(id)
    \/ Emit
    \/ \E l \in Listeners : GetEvent(l)
    \/ \E l \in Listeners : EventRead(l)
    \/ \E l \in Listeners : EventTimeout(l)

SpecEvents ==
    Init /\ [][NextEvents]_vars

\* the calls made against a device whose responses may be garbled
LockCalls ==
    {Op("get_version", 0, 0), Op("get_zoom_labels", 0, 0), Op("set_objective", 5, 0),
     Op("get_z_bound", 0, 0)}

\* two tasks calling command operations; the device's responses may be garbled
NextLock ==
    \/ \E p \in Callers, o \in LockCalls : Call(p, o)
    \/ \E p \in Callers : Acquire(p)
    \/ \E p \in Callers, ok \in BOOLEAN : Write(p, ok)
    \/ \E p \in Callers : Read(p)
    \/ \E p \in Callers : ReadTimeout(p)
    \/ \E p \in Callers : Resume(p)
    \/ \E id \in unanswered : Respond(id)
    \/ \E id \in unanswered : RespondGarbled(id)

SpecLock ==
    Init /\ [][NextLock]_vars

\* -------------------------------------------------------- sequence counter
\* One _request after another, each resolved before the next is made: lines
\* 97-98 alone, at the counter's full width.
SeqRequest ==
    /\ seq_calls < MaxSeqCalls
    /\ seq_calls' = seq_calls + 1
    /\ seq_first' = IF seq_calls = 0 THEN next_request_number ELSE seq_first
    /\ seq_last' = next_request_number
    /\ next_request_number' = NextRequestNumber(next_request_number)
    /\ UNCHANGED <<lock, waiters, pc, op, todo, request_number, frame, writes, seen,
                   response, error, outcome, calls, unanswered, timedout, rx, evvars, iolog,
                   stvars, codecvars, loopvars>>

NextSeq ==
    SeqRequest

SpecSeq ==
    Init /\ [][NextSeq]_vars

\* -------------------------------------------------------- get_stable_status
\* Time is counted in ms and passes in steps of TimeStep. A timer holds the time
\* left to it and is -1 when it is not armed.
Later(t) ==
    IF t < 0 THEN t ELSE IF t > TimeStep THEN t - TimeStep ELSE 0

IdleDurations ==
    {k * TimeStep : k \in 1..MaxIdleSteps}

\* the first get_status under wait_for as well
FirstWaitIdle(d) ==
    d

\* the timeout around the first get_status, line 264: none
FirstWait(d) ==
    -1

\* the timeout around every later get_status, line 268
LoopWait(d) ==
    d

\* A task calls get_stable_status(idle_duration=d): line 264 starts get_status,
\* whose get_event hands the read of 0x82 to the executor.
StCall(d) ==
    /\ spc \in {"idle", "returned", "failed"}
    /\ spc' = "first"
    /\ idle_duration' = d
    /\ status' = 0
    /\ result' = 0
    /\ wait_timer' = FirstWait(d)
    /\ read_timer' = EVENT_READ_TIMEOUT
    /\ received' = <<>>
    /\ elapsed' = 0
    /\ gap' = 0
    /\ UNCHANGED <<cmdvars, rx, evvars, iolog, seqvars, codecvars, loopvars, dangling, lost>>

\* The call's read delivers a status frame: get_status returns it, `status` takes
\* it and line 268 starts the next get_status under wait_for.
StRead ==
    /\ spc \in {"first", "loop"}
    /\ rx[EP_EVENT_READ] # <<>>
    /\ rx' = [rx EXCEPT ![EP_EVENT_READ] = Tail(@)]
    /\ status' = Head(rx[EP_EVENT_READ])
    /\ received' = Append(received, Head(rx[EP_EVENT_READ]))
    /\ gap' = 0
    /\ spc' = "loop"
    /\ wait_timer' = LoopWait(idle_duration)
    /\ read_timer' = EVENT_READ_TIMEOUT
    /\ UNCHANGED <<cmdvars, evvars, iolog, seqvars, codecvars, loopvars, idle_duration, result, dangling,
                   elapsed, lost>>

\* The call's read times out after 15 s: the transport's timeout error is no
\* TimeoutError, nothing catches it and the call ends with it. (wait_for arms
\* its timer before the read is started: of the two it runs out first.)
StReadTimeout ==
    /\ spc \in {"first", "loop"}
    /\ read_timer = 0
    /\ wait_timer # 0
    /\ spc' = "failed"
    /\ read_timer' = -1
    /\ wait_timer' = -1
    /\ UNCHANGED <<cmdvars, rx, evvars, iolog, seqvars, codecvars, loopvars, idle_duration, status, result,
                   dangling, received, elapsed, gap, lost>>

\* wait_for times out: get_status is cancelled, but the executor's thread stays
\* in its read. Inside the loop line 269 catches the TimeoutError and line 270
\* returns `status`; around line 264 nothing would catch it.
StWaitTimeout ==
    /\ spc \in {"first", "loop"}
    /\ wait_timer = 0
    /\ IF spc = "loop"
         THEN /\ spc' = "returned"
              /\ result' = status
         ELSE /\ spc' = "failed"
              /\ UNCHANGED result
    /\ dangling' = Append(dangling, read_timer)
    /\ read_timer' = -1
    /\ wait_timer' = -1
    /\ UNCHANGED <<cmdvars, rx, evvars, iolog, seqvars, codecvars, loopvars, idle_duration, status,
                   received, elapsed, gap, lost>>

\* sequence s without its i-th element
Without(s, i) ==
    [j \in 1..(Len(s) - 1) |-> IF j < i THEN s[j] ELSE s[j + 1]]

\* The read of a cancelled get_event delivers a status frame to nobody.
DanglingRead(i) ==
    /\ i \in 1..Len(dangling)
    /\ rx[EP_EVENT_READ] # <<>>
    /\ rx' = [rx EXCEPT ![EP_EVENT_READ] = Tail(@)]
    /\ lost' = lost \cup {Head(rx[EP_EVENT_READ])}
    /\ dangling' = Without(dangling, i)
    /\ UNCHANGED <<cmdvars, evvars, iolog, seqvars, codecvars, loopvars, spc, idle_duration, status, result,
                   wait_timer, read_timer, received, elapsed, gap>>

\* The read of a cancelled get_event times out.
DanglingTimeout(i) ==
    /\ i \in 1..Len(dangling)
    /\ dangling[i] = 0
    /\ dangling' = Without(dangling, i)
    /\ UNCHANGED <<cmdvars, rx, evvars, iolog, seqvars, codecvars, loopvars, spc, idle_duration, status,
                   result, wait_timer, read_timer, received, elapsed, gap, lost>>

\* a read of the event endpoint is in progress
Reading ==
    read_timer >= 0 \/ dangling # <<>>

\* Time passes by one step, unless a timer has run out or a frame is waiting for
\* a read in progress: those happen first.
Tick ==
    /\ elapsed < MaxSteps * TimeStep
    /\ wait_timer # 0
    /\ read_timer # 0
    /\ \A i \in 1..Len(dangling) : dangling[i] # 0
    /\ ~(Reading /\ rx[EP_EVENT_READ] # <<>>)
    /\ wait_timer' = Later(wait_timer)
    /\ read_timer' = Later(read_timer)
    /\ dangling' = [i \in 1..Len(dangling) |-> Later(dangling[i])]
    /\ elapsed' = elapsed + TimeStep
    /\ gap' = gap + TimeStep
    /\ UNCHANGED <<cmdvars, rx, evvars, iolog, seqvars, codecvars, loopvars, spc, idle_duration, status,
                   result, received, lost>>

NextStable ==
    \/ \E d \in IdleDurations : StCall(d)
    \/ StRead
    \/ StReadTimeout
    \/ StWaitTimeout
    \/ \E i \in 1..Len(dangling) : DanglingRead(i)
    \/ \E i \in 1..Len(dangling) : DanglingTimeout(i)
    \/ Emit
    \/ Tick

SpecStable ==
    Init /\ [][NextStable]_vars

\* ------------------------------------------------- run() against the clock
\* One _request with the time its reads take: lines 97-109.
\* the first read's timeout kept for the whole call
KeepTimeout(left) ==
    left

\* the timeout of the read the loop of line 104 starts after dropping a frame:
\* every self._device.read(0x81, 62, 10000) has its own 10 s
RestartTimeout(left) ==
    COMMAND_READ_TIMEOUT

\* the identifiers of the requests made just before and just after n
OtherNumbers(n) ==
    {(n + RequestModulus - 1) % RequestModulus, (n + 1) % RequestModulus}

\* _request takes its number; run() writes the frame and starts its first read.
RlCall ==
    /\ rl_pc = "idle"
    /\ rl_number' = next_request_number
    /\ next_request_number' = NextRequestNumber(next_request_number)
    /\ rl_pc' = "read"
    /\ rl_timer' = COMMAND_READ_TIMEOUT
    /\ rl_waited' = 0
    /\ rl_elapsed' = 0
    /\ UNCHANGED <<lock, waiters, pc, op, todo, request_number, frame, writes, seen,
                   response, error, outcome, calls, unanswered, timedout, rx, evvars,
                   iolog, seqvars, stvars, codecvars, rl_dropped, rl_stale, rl_answered>>

\* The device delivers the response to the request.
RlAnswer ==
    /\ rl_pc = "read"
    /\ ~rl_answered
    /\ rl_answered' = TRUE
    /\ rx' = [rx EXCEPT ![EP_COMMAND_READ] = Append(@, ResponseFrame(PackH(rl_number)))]
    /\ UNCHANGED <<cmdvars, evvars, iolog, seqvars, stvars, codecvars, rl_pc, rl_number,
                   rl_timer, rl_waited, rl_elapsed, rl_dropped, rl_stale>>

\* The device delivers a frame that answers another request.
RlStale(k) ==
    /\ rl_pc = "read"
    /\ rl_stale < MaxStale
    /\ k \in OtherNumbers(rl_number)
    /\ rl_stale' = rl_stale + 1
    /\ rx' = [rx EXCEPT ![EP_COMMAND_READ] = Append(@, ResponseFrame(PackH(k)))]
    /\ UNCHANGED <<cmdvars, evvars, iolog, seqvars, stvars, codecvars, rl_pc, rl_number,
                   rl_timer, rl_waited, rl_elapsed, rl_dropped, rl_answered>>

\* lines 105-109: the read in progress gets a frame; run() returns it if it
\* carries the request's number, else drops it and starts the next read.
RlRead ==
    /\ rl_pc = "read"
    /\ rx[EP_COMMAND_READ] # <<>>
    /\ rx' = [rx EXCEPT ![EP_COMMAND_READ] = Tail(@)]
    /\ IF Matches(Head(rx[EP_COMMAND_READ]), rl_number)
         THEN /\ rl_pc' = "returned"
              /\ rl_timer' = -1
              /\ UNCHANGED <<rl_dropped, rl_waited>>
         ELSE /\ rl_pc' = "read"
              /\ rl_timer' = RestartTimeout(rl_timer)
              /\ rl_waited' = 0
              /\ rl_dropped' = rl_dropped + 1
    /\ UNCHANGED <<cmdvars, evvars, iolog, seqvars, stvars, codecvars, rl_number,
                   rl_elapsed, rl_stale, rl_answered>>

\* line 105: the read in progress has had no frame for its whole timeout; the
\* transport's timeout error ends run().
RlTimeout ==
    /\ rl_pc = "read"
    /\ rl_timer = 0
    /\ rx[EP_COMMAND_READ] = <<>>
    /\ rl_pc' = "failed"
    /\ rl_timer' = -1
    /\ UNCHANGED <<cmdvars, rx, evvars, iolog, seqvars, stvars, codecvars, rl_number,
                   rl_waited, rl_elapsed, rl_dropped, rl_stale, rl_answered>>

\* Time passes by one step while the read waits, unless a frame is there for it
\* or its timeout has run out.
RlTick ==
    /\ rl_pc = "read"
    /\ rl_timer > 0
    /\ rx[EP_COMMAND_READ] = <<>>
    /\ rl_timer' = Later(rl_timer)
    /\ rl_waited' = rl_waited + (rl_timer - Later(rl_timer))
    /\ rl_elapsed' = rl_elapsed + (rl_timer - Later(rl_timer))
    /\ UNCHANGED <<cmdvars, rx, evvars, iolog, seqvars, stvars, codecvars, rl_pc,
                   rl_number, rl_dropped, rl_stale, rl_answered>>

NextLoop ==
    \/ RlCall
    \/ RlAnswer
    \/ \E k \in OtherNumbers(rl_number) : RlStale(k)
    \/ RlRead
    \/ RlTimeout
    \/ RlTick

\* The executor's thread runs and time passes; the device owes nothing.
SpecLoop ==
    /\ Init
    /\ [][NextLoop]_vars
    /\ WF_vars(RlRead)
    /\ WF_vars(RlTimeout)
    /\ WF_vars(RlTick)

\* -------------------------------------------------- status decode, set_dia
\* A status frame as the device lays it out: the fields at the offsets line 240
\* reads them from, every other byte being `pad`.
StatusFrame(s, pad) ==
    Fill(3, pad) \o <<s.objective, s.condenser, s.fs>> \o Fill(2, pad) \o <<s.path>>
        \o Fill(1, pad) \o PackI(s.z) \o Fill(4, pad) \o PackI(s.x) \o Fill(4, pad)
        \o PackI(s.y) \o Fill(4, pad) \o PackH(s.dia) \o <<s.light>> \o Fill(7, pad)
        \o <<s.zoom>> \o Fill(19, pad)

\* the raw values of one status frame
BaseStatus ==
    [objective |-> 3, condenser |-> 1, fs |-> 17, path |-> 2, z |-> 1000, x |-> 500,
     y |-> 250, dia |-> 1050, light |-> 1, zoom |-> 65]

\* the raw values the model decodes: each field over its range, one at a time
RawStatuses ==
    {[BaseStatus EXCEPT !.fs = b] : b \in 0..255}
    \cup {[BaseStatus EXCEPT !.objective = r] : r \in 0..7}
    \cup {[BaseStatus EXCEPT !.condenser = r] : r \in 0..8}
    \cup {[BaseStatus EXCEPT !.path = r] : r \in 0..5}
    \cup {[BaseStatus EXCEPT !.zoom = r] : r \in {64, 65, 66}}
    \cup {[BaseStatus EXCEPT !.light = r] : r \in {0, 1, 2}}
    \cup {[BaseStatus EXCEPT !.z = v, !.x = v + 1, !.y = v - 1] :
              v \in {-2147483647, -1, 0, 70000, 2147483646}}
    \cup {[BaseStatus EXCEPT !.dia = r] : r \in 0..(DiaScale + MaxOverstep)}
    \cup {[BaseStatus EXCEPT !.dia = 65535]}

Frames ==
    {StatusFrame(s, pad) : s \in RawStatuses, pad \in {0, 255}}
    \cup {SubSeq(StatusFrame(BaseStatus, 0), 1, 62)}

\* the values given to set_dia: a / b for small b, and every multiple of half a
\* diaphragm step
Fractions ==
    {<<a, b>> : a \in -1..(MaxDen + 1), b \in 1..MaxDen}
    \cup {<<a, 2 * DiaScale>> : a \in 0..(2 * DiaScale)}

InitCodec ==
    /\ next_request_number = 0
    /\ InitDevice
    /\ IdleSeq
    /\ IdleStable
    /\ IdleLoop
    /\ event = NoEvent
    /\ dia_out = -1
    /\ \/ data \in Frames /\ dia_in = NoFraction
       \/ data = <<>> /\ dia_in \in Fractions

\* get_event decodes the bytes its read returned, lines 240-254
Decode ==
    /\ data # <<>>
    /\ event = NoEvent
    /\ event' = DecodeStatus(data)
    /\ UNCHANGED <<cmdvars, rx, evvars, iolog, seqvars, stvars, loopvars, data, dia_in, dia_out>>

\* the client passes the opening of the event it got on to set_dia
Echo ==
    /\ event.error = "ok"
    /\ dia_in = NoFraction
    /\ dia_in' = event.dia
    /\ UNCHANGED <<cmdvars, rx, evvars, iolog, seqvars, stvars, loopvars, data, event, dia_out>>

\* set_dia(dia_in): the step it encodes, taken from the payload it passes to
\* _request, or -2 when its assert refuses the value
SetDia ==
    /\ dia_in # NoFraction
    /\ dia_out = -1
    /\ LET o == Op("set_dia", dia_in[1], dia_in[2])
       IN  dia_out' = IF RangeOk(o)
                        THEN UnpackH(SubSeq(Steps(o)[1].payload, 10, 11))
                        ELSE -2
    /\ UNCHANGED <<cmdvars, rx, evvars, iolog, seqvars, stvars, loopvars, data, event, dia_in>>

NextCodec ==
    \/ Decode
    \/ Echo
    \/ SetDia

SpecCodec ==
    InitCodec /\ [][NextCodec]_vars

\* ==================================================================== claims
\* a request that has its identifier and is not resolved yet
Outstanding(p) ==
    pc[p] \in {"run", "read"}

\* the identifier a 62-byte frame carries in bytes [60:62], big-endian
FrameNumber(f) ==
    f[61] * 256 + f[62]

\* C1: at most one command is in flight at any time: between a request's
\* identifier allocation and its resolution no other request on the device holds
\* an identifier, writes or reads. (Two stage-bound queries, or one beside a
\* locked command, are in flight together: _get_bound takes no lock.)
C1_OneCommandInFlight ==
    Cardinality({p \in Callers : Outstanding(p)}) <= 1

\* C2: a _request with identifier n returns exactly the frame that carries n:
\* every frame it read before is one with another identifier, dropped without an
\* error, and the frame carrying n is the last one it reads.
C2_ResponseCorrelation ==
    \A p \in Callers :
        /\ pc[p] = "read" =>
              /\ error[p] = "none"
              /\ \A i \in 1..Len(seen[p]) : FrameNumber(seen[p][i]) # request_number[p]
        /\ (pc[p] = "resolved" /\ error[p] = "none") =>
              /\ seen[p] # <<>>
              /\ response[p] = seen[p][Len(seen[p])]
              /\ FrameNumber(response[p]) = request_number[p]
              /\ \A i \in 1..(Len(seen[p]) - 1) :
                    FrameNumber(seen[p][i]) # request_number[p]

\* C2 witness: a request returned its frame after dropping two others
C2_Witness ==
    \E p \in Callers :
        /\ pc[p] = "resolved"
        /\ error[p] = "none"
        /\ Len(seen[p]) >= 3
        /\ FrameNumber(response[p]) = request_number[p]

\* the ranges the setters document
OutOfRange(o) ==
    CASE o.name = "set_objective" -> o.a < 0 \/ o.a > 5
      [] o.name = "set_filter" -> o.a < 0 \/ o.a > 5
      [] o.name = "set_condenser" -> o.a < 0 \/ o.a > 6
      [] o.name = "set_optical_path" -> o.a < 0 \/ o.a > 3
      [] o.name = "set_dia" -> o.a < 0 \/ o.a > o.b
      [] OTHER -> FALSE

\* C3: a setter given an argument outside its documented range fails with the
\* out-of-range error before any I/O: the task never gets an identifier, never
\* writes a frame and never takes or waits for the command lock.
C3_RangeValidation ==
    \A p \in Callers :
        OutOfRange(op[p]) =>
            /\ outcome[p] = "AssertionError"
            /\ pc[p] = "idle"
            /\ lock # p
            /\ \A i \in 1..Len(waiters) : waiters[i] # p
            /\ request_number[p] = -1
            /\ writes[p] = 0
            /\ frame[p] = <<>>

\* C3 witness: set_dia(1.1) was refused
C3_Witness ==
    \E p \in Callers :
        /\ op[p] = Op("set_dia", 11, 10)
        /\ outcome[p] = "AssertionError"
        /\ pc[p] = "idle"

\* C4: the identifier advances by one modulo 65536: after 65536 calls the next
\* identifier is the first one issued, and none of the 65535 calls in between
\* reuses it.
C4_AdvancesModulo65536 ==
    /\ seq_calls >= 1 => next_request_number = (seq_last + 1) % 65536
    /\ seq_calls = 65536 => next_request_number = seq_first
    /\ (seq_calls >= 2 /\ seq_calls <= 65536) => seq_last # seq_first

\* C5: once the events have stopped for longer than idle_duration,
\* get_stable_status has returned, and what it returned is the last event it
\* received before the gap.
C5_StableStatusReturnsLast ==
    (received # <<>> /\ gap > idle_duration) =>
        /\ spc = "returned"
        /\ result = received[Len(received)]

\* C6 as stated: every read of get_stable_status, the first included, times out
\* after idle_duration, so a call that got no event within idle_duration of its
\* start has failed.
C6_FirstReadTimesOutAfterIdle ==
    (spc # "idle" /\ received = <<>> /\ elapsed > idle_duration) => spc = "failed"

\* C6 amended: the first read is under no idle timeout, only under the 15 s of
\* the event read: it is still waiting until then, and if no event has arrived
\* 15 s after the call started the call fails (returning nothing); the idle
\* timeout is armed around every read after the first.
C6_FirstReadTimesOutAfter15s ==
    /\ spc = "first" =>
          /\ received = <<>>
          /\ wait_timer = -1
          /\ read_timer = (IF elapsed < 15000 THEN 15000 - elapsed ELSE 0)
          /\ elapsed < 15000 + TimeStep
    /\ (spc = "failed" /\ received = <<>>) => (elapsed >= 15000 /\ result = 0)
    /\ (spc # "idle" /\ received = <<>> /\ elapsed >= 15000 + TimeStep) =>
          spc = "failed"
    /\ spc = "loop" =>
          wait_timer = (IF gap < idle_duration THEN idle_duration - gap ELSE 0)

\* C6 witness: a call with a shorter idle_duration failed on its first read, 15 s
\* after it started
C6_Witness ==
    /\ spc = "failed"
    /\ received = <<>>
    /\ idle_duration < 15000
    /\ elapsed >= 15000

\* C7: the event reads take no lock, write nothing and read only endpoint 0x82;
\* the command operations write only 0x01 and read only 0x81; a blocked event
\* read completes as soon as a status frame is there and a blocked command read
\* as soon as a response is there, whatever the other side is doing.
C7_EventStreamIndependent ==
    /\ \A t \in iolog :
          /\ t[1] = "event" => (t[2] = "read" /\ t[3] = 130)
          /\ t[1] = "command" =>
                \/ t[2] = "write" /\ t[3] = 1
                \/ t[2] = "read" /\ t[3] = 129
    /\ lock \notin Listeners
    /\ \A i \in 1..Len(waiters) : waiters[i] \notin Listeners
    /\ \A l \in Listeners :
          (lpc[l] = "read" /\ rx[130] # <<>>) => ENABLED EventRead(l)
    /\ \A p \in Callers :
          (pc[p] = "read" /\ rx[129] # <<>>) => ENABLED Read(p)

\* C7 witness: a command holds the lock and waits for its response while an
\* event read has its frame ready and can complete
C7_Witness ==
    \E p \in Callers, l \in Listeners :
        /\ lock = p
        /\ pc[p] = "read"
        /\ rx[129] = <<>>
        /\ lpc[l] = "read"
        /\ rx[130] # <<>>
        /\ <<"event", "read", 130>> \in iolog
        /\ ENABLED EventRead(l)

C9_OneWritePerRequest ==
    \A p \in Callers :
        /\ pc[p] = "run" => writes[p] = 0
        /\ pc[p] \in {"read", "resolved"} => writes[p] = 1
        /\ error[p] = "USBTimeoutError" => (pc[p] = "resolved" /\ writes[p] = 1)

\* C9 witness: a request timed out after dropping a frame, having written once
C9_Witness ==
    \E p \in Callers :
        /\ pc[p] = "resolved"
        /\ error[p] = "USBTimeoutError"
        /\ seen[p] # <<>>
        /\ writes[p] = 1

\* the operations built with _call, and the call type of each
CallType(name) ==
    CASE name = "set_x" -> 168
      [] name = "set_y" -> 172
      [] name = "set_z" -> 160
      [] name = "set_condenser" -> 136
      [] name = "set_dia" -> 181
      [] name = "set_filter" -> 140
      [] name = "set_light" -> 180
      [] name = "set_objective" -> 128
      [] name = "set_optical_path" -> 152
      [] name = "set_shutter" -> 141
      [] OTHER -> -1

\* bytes [7:11] of a frame as a signed 32-bit big-endian integer
ArgValue(f) ==
    (f[8] - (IF f[8] >= 128 THEN 256 ELSE 0)) * 16777216
        + f[9] * 65536 + f[10] * 256 + f[11]

\* the number a _call operation sends as its argument
ArgSent(o, v) ==
    CASE o.name \in {"set_x", "set_y", "set_z", "set_light", "set_shutter"} -> v = o.a
      [] o.name = "set_dia" ->
            /\ v >= 1
            /\ v <= 2100
            /\ 2 * (o.b * (v - 1) - 2099 * o.a) <= o.b
            /\ 2 * (2099 * o.a - o.b * (v - 1)) <= o.b
      [] OTHER -> v = o.a + 1

\* C10: every frame written is 62 bytes: the payload followed by zeros in
\* [0,58), 0x30 0x31 in [58,60), the identifier big-endian in [60,62); a _call
\* payload is 01 00 21 FF 00 00, the call type, and the argument in 4 bytes with
\* leading zeros.
C10_FrameFormat ==
    \A p \in Callers :
        frame[p] # <<>> =>
            LET f == frame[p]
                payload == Head(todo[p]).payload
            IN  /\ Len(f) = 62
                /\ Len(payload) <= 58
                /\ \A i \in 1..58 :
                      f[i] = (IF i <= Len(payload) THEN payload[i] ELSE 0)
                /\ f[59] = 48
                /\ f[60] = 49
                /\ f[61] \in 0..255
                /\ f[62] \in 0..255
                /\ f[61] * 256 + f[62] = request_number[p]
                /\ CallType(op[p].name) >= 0 =>
                      /\ SubSeq(f, 1, 6) = <<1, 0, 33, 255, 0, 0>>
                      /\ f[7] = CallType(op[p].name)
                      /\ ArgSent(op[p], ArgValue(f))
                      /\ \A i \in 12..58 : f[i] = 0

\* C10 witness: set_x(-1) wrote its frame
C10_Witness ==
    \E p \in Callers :
        /\ op[p] = Op("set_x", -1, 0)
        /\ Len(frame[p]) = 62
        /\ SubSeq(frame[p], 7, 11) = <<168, 255, 255, 255, 255>>

\* the diaphragm step a status frame carries in bytes [34:36]
DiaRaw(b) ==
    b[35] * 256 + b[36]

Abs(n) ==
    IF n < 0 THEN -n ELSE n

\* C11: the diaphragm's encoding and decoding are inverse: a status frame's
\* step r in 1..2100, decoded by get_event and given back to set_dia, is written
\* as r again; and set_dia of any a/b in [0,1] writes a step in 1..2100 (which
\* fits 16 bits) that decodes to within one step (1/2099) of a/b.
C11_DiaRoundTrip ==
    /\ (data # <<>> /\ dia_out # -1 /\ DiaRaw(data) \in 1..2100) =>
          /\ dia_in = <<DiaRaw(data) - 1, 2099>>
          /\ dia_out = DiaRaw(data)
    /\ (data = <<>> /\ dia_out # -1 /\ 0 <= dia_in[1] /\ dia_in[1] <= dia_in[2]) =>
          /\ dia_out \in 1..2100
          /\ dia_out < 65536
          /\ LET d == DiaDecode(dia_out)
             IN  /\ d[2] > 0
                 /\ Abs(d[1] * dia_in[2] - dia_in[1] * d[2]) <= (dia_in[2] * d[2]) \div 2099

\* C11 witness: the last step, 2100, came back from set_dia as 2100
C11_Witness ==
    /\ data # <<>>
    /\ DiaRaw(data) = 2100
    /\ event.error = "ok"
    /\ dia_in = <<2099, 2099>>
    /\ dia_out = 2100

\* C12: get_event derives condenser, objective and optical_path as raw - 1, zoom
\* as raw - 0x40, and from the one filter/shutter byte b (any of 0..255) filter
\* as (b & 0x0F) - 1 and shutter as b >= 0x10; so objective 3, condenser 1, byte
\* 0x11, optical path 2, zoom 0x41 decode to 2, 0, filter 0, shutter on, 1, 1.
C12_StatusFields ==
    event.error = "ok" =>
        LET b == data[6]
        IN  /\ b \in 0..255
            /\ event.objective = data[4] - 1
            /\ event.condenser = data[5] - 1
            /\ event.optical_path = data[9] - 1
            /\ event.zoom = data[45] - 64
            /\ event.filter = (b % 16) - 1
            /\ event.shutter = (b >= 16)
            /\ (data[4] = 3 /\ data[5] = 1 /\ b = 17 /\ data[9] = 2 /\ data[45] = 65) =>
                  /\ event.objective = 2
                  /\ event.condenser = 0
                  /\ event.filter = 0
                  /\ event.shutter = TRUE
                  /\ event.optical_path = 1
                  /\ event.zoom = 1

\* C12 witness: the byte 0xF3 decoded to filter 2 with the shutter on
C12_Witness ==
    /\ event.error = "ok"
    /\ data[6] = 243
    /\ event.filter = 2
    /\ event.shutter = TRUE
    /\ event.objective = 2
    /\ event.zoom = 1

\* C13: the response to a request that timed out is never taken for the response
\* to a later one: a later request has another identifier, reads and drops the
\* frame that carries the old one, and returns only the frame carrying its own.
C13_StaleNotMisattributed ==
    \A p \in Callers :
        /\ Outstanding(p) => request_number[p] \notin timedout
        /\ (pc[p] = "resolved" /\ error[p] = "none") =>
              /\ request_number[p] \notin timedout
              /\ FrameNumber(response[p]) \notin timedout
              /\ FrameNumber(response[p]) = request_number[p]
              /\ \A i \in 1..Len(seen[p]) :
                    FrameNumber(seen[p][i]) \in timedout => i < Len(seen[p])

\* C13 witness: a request returned its own frame after reading and dropping the
\* late response to a request that had timed out
C13_Witness ==
    \E p \in Callers :
        /\ pc[p] = "resolved"
        /\ error[p] = "none"
        /\ FrameNumber(response[p]) = request_number[p]
        /\ Len(seen[p]) >= 2
        /\ FrameNumber(seen[p][1]) \in timedout

\* C14: a command call ends: after its write the read loop either returns the
\* frame carrying its number or fails by timeout, whenever the device delivers
\* only finitely many other frames. The 10 s run anew for every read: a read in
\* progress has 10 s less what it has waited itself, the call fails exactly when
\* one read has waited its 10 s, and the whole call may take 10 s for every frame
\* it drops and 10 s more.
C14_ReadLoopTerminates ==
    /\ [](/\ rl_pc = "read" =>
                /\ rl_waited <= 10000
                /\ rl_timer = 10000 - rl_waited
          /\ rl_pc = "failed" => rl_waited = 10000
          /\ rl_waited <= 10000
          /\ rl_elapsed <= 10000 * (rl_dropped + 1)
          /\ rl_pc = "returned" => rl_answered)
    /\ (rl_pc = "read") ~> (rl_pc \in {"returned", "failed"})

\* C14 witness: the call returned its frame 15 s after its write, having dropped
\* two frames on the way
C14_Witness ==
    /\ rl_pc = "returned"
    /\ rl_dropped >= 2
    /\ rl_elapsed >= 15000

\* C15: an event-stream call leaves no read behind: once get_stable_status has
\* returned (its idle timeout included) or failed, no read it started is still
\* pending on the event endpoint, and no status frame is read and dropped.
\* (The read of the get_status that wait_for cancels stays pending in the
\* executor's thread and takes the next frame.)
C15_NoReadLeftBehind ==
    /\ spc \in {"returned", "failed"} =>
          /\ read_timer = -1
          /\ dangling = <<>>
    /\ lost = {}

\* the signed 32-bit big-endian integer at offset i of b (the first byte is b[1])
I32At(b, i) ==
    (b[i + 1] - (IF b[i + 1] >= 128 THEN 256 ELSE 0)) * 16777216
        + b[i + 2] * 65536 + b[i + 3] * 256 + b[i + 4]

\* the unsigned 16-bit big-endian integer at offset i of b
U16At(b, i) ==
    b[i + 1] * 256 + b[i + 2]

\* the fields both readings of the layout agree on: the four single bytes and
\* the three positions
LayoutHead ==
    /\ Len(data) = 64
    /\ event.objective = data[4] - 1
    /\ event.condenser = data[5] - 1
    /\ event.filter = (data[6] % 16) - 1
    /\ event.optical_path = data[9] - 1
    /\ event.z = I32At(data, 10)
    /\ event.x = I32At(data, 18)
    /\ event.y = I32At(data, 26)

\* C16 as stated: after the four single bytes come four signed 32-bit integers
\* z, x, y and the diaphragm step, then a 16-bit zoom value, then the light flag:
\* dia is made from the fourth 32-bit integer and zoom from the 16-bit value.
C16_FourIntsLayout ==
    event.error = "ok" =>
        /\ LayoutHead
        /\ event.dia = <<I32At(data, 34) - 1, 2099>>
        /\ event.zoom = U16At(data, 38) - 64
        /\ event.light = (data[41] # 0)

\* C16 amended: the frame is 64 bytes (any other length is refused); the four
\* single bytes are followed by three signed 32-bit integers z, x, y, then the
\* diaphragm step as an unsigned 16-bit integer at offset 34, the light flag at
\* offset 36 and, 7 bytes further, the zoom as one byte at offset 44: dia is made
\* from the 16-bit value and zoom from that byte.
C16_ThreeIntsLayout ==
    /\ event.error = "ok" =>
          /\ LayoutHead
          /\ event.dia = <<U16At(data, 34) - 1, 2099>>
          /\ event.light = (data[37] # 0)
          /\ event.zoom = data[45] - 64
    /\ event.error = "struct.error" => Len(data) # 64
    /\ (event # NoEvent /\ Len(data) # 64) => event.error = "struct.error"

\* C16 witness: a frame whose unused bytes are all 0xFF, with z at its lowest,
\* decoded
C16_Witness ==
    /\ event.error = "ok"
    /\ data[1] = 255
    /\ data[38] = 255
    /\ event.z = -2147483647
    /\ event.x = -2147483646
    /\ event.dia = <<1049, 2099>>
    /\ event.light = TRUE
    /\ event.zoom = 1

\* the task waits in the lock's queue
InWaiters(p) ==
    \E i \in 1..Len(waiters) : waiters[i] = p

\* C17: the command lock is released whenever a locked request's block ends,
\* by a return or by a failure (read timeout, transport error, decode error),
\* and no task takes it while holding it: the lock is held only by a task inside
\* a locked request, a waiting task does not hold it, a free lock with waiters
\* can be taken by the first of them, and while any operation is unfinished some
\* task can take a step.
C17_LockReleased ==
    /\ lock \in Callers \cup {0}
    /\ \A p \in Callers :
          /\ lock = p => (pc[p] \in {"run", "read", "resolved"} /\ Head(todo[p]).locked)
          /\ pc[p] = "idle" => (lock # p /\ ~InWaiters(p))
          /\ pc[p] = "wait_lock" <=> InWaiters(p)
          /\ InWaiters(p) =>
                /\ lock # p
                /\ Cardinality({i \in 1..Len(waiters) : waiters[i] = p}) = 1
    /\ (lock = 0 /\ waiters # <<>>) => ENABLED Acquire(Head(waiters))
    /\ (\E p \in Callers : pc[p] # "idle") =>
          \E p \in Callers :
              \/ ENABLED Acquire(p)
              \/ ENABLED Write(p, TRUE)
              \/ ENABLED Read(p)
              \/ ENABLED ReadTimeout(p)
              \/ ENABLED Resume(p)

\* C17 witness: one task's operation failed on decoding its response and the
\* other task holds the lock and has written its request
C17_Witness ==
    \E p, q \in Callers :
        /\ p # q
        /\ pc[p] = "idle"
        /\ outcome[p] = "UnicodeDecodeError"
        /\ lock = q
        /\ pc[q] = "read"
        /\ writes[q] = 1

\* C18: a response is never consumed by another call while its own request is
\* still waiting: no task has read a frame carrying the identifier of another
\* task's outstanding request. (A stage-bound query reads 0x81 beside another
\* request, and each drops the other's response.)
C18_OwnReaderOnly ==
    \A p, q \in Callers :
        (p # q /\ Outstanding(q)) =>
            \A i \in 1..Len(seen[p]) : FrameNumber(seen[p][i]) # request_number[q]

\* the calls the setters refuse: an argument outside 0..5 (objective, filter),
\* 0..6 (condenser), 0..3 (optical path), [0, 1] (dia) or 0..7 (button index)
Refused(o) ==
    \/ o.name \in {"set_objective", "set_filter"} /\ o.a \notin 0..5
    \/ o.name = "set_condenser" /\ o.a \notin 0..6
    \/ o.name = "set_optical_path" /\ o.a \notin 0..3
    \/ o.name = "set_dia" /\ (o.a < 0 \/ o.a > o.b)
    \/ o.name = "set_button_function" /\ o.a \notin 0..7

\* C19: a setter call that fails its range check (a call that moves no other
\* task) changes nothing of the engine:
\* the counter, the lock, its queue and the device's endpoints are as before, so
\* the next request takes the identifier it would have taken anyway: every
\* request takes the counter's value as it stood before it.
C19_RejectedCallChangesNothing ==
    [][/\ \A p \in Callers :
              (/\ calls' # calls
               /\ pc[p] = "idle"
               /\ Refused(op'[p])
               /\ \A q \in Callers \ {p} : pc'[q] = pc[q]) =>
                  /\ outcome'[p] = "AssertionError"
                  /\ next_request_number' = next_request_number
                  /\ lock' = lock
                  /\ waiters' = waiters
                  /\ pc' = pc
                  /\ request_number' = request_number
                  /\ unanswered' = unanswered
                  /\ rx' = rx
                  /\ iolog' = iolog
       /\ \A p \in Callers :
              (request_number'[p] # request_number[p] /\ request_number'[p] # -1) =>
                  request_number'[p] = next_request_number]_vars

\* C19 witness: set_button_function(8, 255) was refused after an earlier request
\* had been written and left unanswered
C19_Witness ==
    \E p \in Callers :
        /\ op[p] = Op("set_button_function", 8, 255)
        /\ outcome[p] = "AssertionError"
        /\ pc[p] = "idle"
        /\ calls >= 2
        /\ unanswered # {}
        /\ lock = 0

====
